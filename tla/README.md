# MeDiE in TLA+

MeDiE (Metadata Distribution Evaluator) compares ways of distributing metadata
over the servers of an object store. A simulator in C (`src/src`) replays
traces of requests from client processes against server processes; in the
dynamic-hashing builds a manager process moves parts of the key space between
servers, from a step of the traces to the next. There are three such builds: DH
redistributes on every SIGUSR2; indedh and windowed when a server asks for it,
because its load is off. The modules here model the DH build as a whole, the
exchange of messages and the transfers of the other two, the computation of a
redistribution in all three, and the window of the third; the plan at the end says
what follows.

## The system

| component | source | state | operations |
|---|---|---|---|
| metadata lookup table | `mlt.c` | for each of `N_entry` entries: server, version, transfer state | init (modulo), get, update entry, update state; one lock per table |
| lists of names | `md_entry.c` | per entry, a linked list of keys | insert, pop, search-and-unlink |
| client | `client.c`, `client_api.c`, `distribution_dh_c.c`, `request.c` | its table; the line of the trace it is at | send a request to the server its table names, learn from the answer, repeat |
| server, main thread | `server.c`, `distribution_dh_s.c`, `generic_storage.c` | table, lists, files under `/dev/shm`, access counters | receive, check, act on the file, update the list, answer; SIGUSR1, SIGUSR2, SIGINT |
| server, transfer threads | `distribution_dh_s.c` | to-do lists of a redistribution | updater, sender, receiver |
| manager | `manager_dh.c` | table, merged access values, `update_needed` | SIGUSR2; gather, compute, publish |
| launcher | `launch_all.sh`, `client_launch.sh`, `protocol_test/synchro.bash` | step of the traces, ack files | run a step, signal, wait for the ack files, remove them |
| access counters | `eacl_*.c` | counter and smoothed value (SAI) per entry | increment, compute, reset |
| window | `queue.c` | ring buffer of values | put, mean, reset |
| other builds | `*_indedh*`, `*_windowed*`, `*_sh*` | as DH, with epochs and load thresholds (indedh, windowed) or no table at all (sh) | HELP / ASK / EACL / MLT exchange |

How they interact in DH:

1. A client sends each request to the server its table names, stamped with the
   version of the line it used. The server answers `wait&retry` if its own line
   is in transfer, `update&retry` with its own line if the versions differ, and
   otherwise does the work and answers `done` or `aborted`.
2. After a step of the traces the launcher signals every server (SIGUSR2) and
   the manager. Each server sends its access values; the manager gathers one
   message per server, moves entries, raises their versions and publishes the
   table.
3. Each server's updater compares the table with its own line by line, marks
   the lines it loses or gains as in transfer, and starts a sender and a
   receiver. The sender drains the list of each entry it lost, deletes the
   files and sends the names; the receiver inserts them and creates the files.
   Both clear the transfer mark. When both threads have ended the updater
   writes the ack file `vmXUSR-1`.
4. The launcher waits for the ack files, removes them, starts the next step.

What is hard: four threads of a server share the table, the files and the lists
and lock each of them separately; signals arrive at any moment; every process
has its own copy of the table and they are updated at different times; REQ/REP
exchanges between servers block in both directions at once; the manager clears
a flag that a signal handler sets; and failures of a thread are ignored by the
thread that joins it.

What makes each component correct: the tables agree on what a version means,
and versions only grow; an entry is served by at most one server; nothing is
lost or doubled by a transfer; an acknowledged redistribution is over; every
redistribution and every request ends.

In indedh and windowed, step 2 is different. A server that gets SIGUSR2 raises
its epoch, measures, publishes the epoch to its listener thread, and sends HELP
if its load is outside the thresholds or writes `vmXUSR-0` if not. On the first
HELP of an epoch the manager sends ASK; every server's listener waits until its
handler has reached that epoch and answers with its EACL; the manager computes
and publishes the MLT, and the listeners transfer and write `vmXUSR-1`. The
launcher waits for one ack of each server, and if one of them is a `-1`, for all
`-1`. What is hard here: a handler and a listener of one process, epochs counted
on both sides, acks of two kinds, and a manager that counts answers. What makes
it correct: nobody answers for another epoch, nobody fails to answer, one
redistribution per epoch, and the clients run only when it is over.

What makes a computed redistribution correct: entries move from overloaded to
underloaded servers, each with the next version; the loads get nearer to the
mean; the manager's load of an entry is what its server measured, although
counters travel as messages and entries move.

## The modules

| module | models | extends |
|---|---|---|
| `Mlt` | the table and the lists as operators on values | |
| `DHChannels` | what processes share: sockets, published tables, signals, ack files | `Mlt` |
| `DHManager` | the manager's loop | `DHChannels`, `Reassignment` |
| `DHServer` | the main thread and the signal handlers of a server | `DHChannels` |
| `DHTransfer` | updater, sender and receiver of a server | `DHServer` |
| `DHClient` | a client process | `DHChannels` |
| `DHProtocol` | the composition, the launcher, fairness, all properties | the three above |
| `DHHandover` | the invariant on redistributions, packets and acks (`HandoverInv`) | `DHProtocol` |
| `EntryOwnership` | abstract specification: an entry is released by its old server, then taken by its new one | `Reassignment` |
| `DHOwnership` | the refinement mapping from the protocol to `EntryOwnership!Spec` | `DHHandover` |
| `DHMetadata` | the invariant on requests, files and lists under the barrier (`MetadataInv`) | `DHHandover` |
| `MCDHProtocol` | values of the constants for TLC | `DHOwnership`, `DHMetadata` |
| `Reassignment` | what a relab computation may do to a table (`Relab`, `RelabMany`) | `Mlt` |
| `Rebalancing` | abstract specification: the assignments all agree on, and redistributions | `Reassignment` |
| `Loads` | merged SAI list and the greedy `manager_balance_load` | `Reassignment` |
| `BalanceDH` | counters and `manager_calculate_relab` of DH; implements `Rebalancing!Spec` | `Loads` |
| `BalanceWindowed` | counters with windows, thresholds, `manager_calculate_relab` of windowed and indedh; implements `Rebalancing!SpecMany` | `Loads` |
| `IndepEpoch` | HELP / ASK / EACL / MLT between servers, manager and launcher | `Reassignment` |
| `IndepTransfer` | composes `IndepEpoch` with tables and transfer threads of windowed and indedh; implements `EntryOwnership!SpecMany` | `IndepEpoch` |
| `Window` | abstract specification of the queue: the last values put | |
| `WindowQueue` | the ring buffer of `queue.c`; implements `Window` | |
| `DHProtocolProofs` | theorems on the DH build with clients at any time | `DHOwnership` |
| `DHMetadataProofs` | theorems on the DH build under the barrier | `DHMetadata`, `DHProtocolProofs` |
| `SumProofs` | sums over finite sets | |
| `LoadsProofs` | what the operators of `Loads` return | `Loads`, `SumProofs` |
| `BalanceDHProofs`, `BalanceWindowedProofs` | theorems on the computations | `LoadsProofs` |
| `WindowQueueProofs` | theorems on the ring buffer | `WindowQueue`, `SumProofs` |
| `IndepProofs` | theorems on `IndepEpoch` and `IndepTransfer` | `IndepTransfer` |

### Correspondence

An action is what a thread does between two points where another thread, or a
signal handler, can see or change what it uses. A request takes three steps in
the server (`SrvAccept`: the check of `distribution_post_receive`; `SrvPut`,
`SrvUpdate`, `SrvDelete`, `SrvGet`: the file; `SrvInsert`, `SrvUnlink`: the
list and the answer), because the lock of the table is released after the
check and the list has its own. A sender step is one of: choose the next entry,
read the head of the list, pop, delete the file, send, mark the line, receive
the answer. A receiver step is one of: receive, insert a name, create a file,
mark the line, answer. The updater compares one line per step.

Variables carry the names of the C variables where there is one (`table`,
`in_charge_md`, `update_needed`, `nb_rcv`, `to_send`, `to_receive`). `net[c]`,
`req[c]`, `rep[c]` are the exchange of client `c`: it has one at most, since
`client_request` blocks in `zstr_recv`. `mlts` is the sequence of all tables
ever published and `seen[s]` the number a server has received: a PUB socket
delivers in order. `mlts[1]` is the table every process computes for itself at
start. `xfer[s]` is the exchange of the sender of `s`. `pull` counts SAI
messages, whose content only feeds the choice of the manager.

`made` (the keys the traces have created) and `acked` (what clients were told)
are history variables: no process reads them except the trace generator, which
creates a key before it uses it, as `setup.py` arranges.

Abstractions:

- *The relab computation.* In the protocol modules `Relab(t)` is every
  assignment that `manager_calculate_relab` could produce from table `t`,
  whatever the counters: a server that gives entries gives them to one server,
  which gives none. A moved entry gets the next version. That the loops of
  `manager_calculate_relab` never do anything else is `ImplementsRelab` of
  `BalanceDH`, checked and proved: there the relation is the abstract
  specification and the loops implement it.
- *Contents.* `client.c` writes "a word" for every key, and so does the
  receiver. The runs use one value for both.
- *Keys and hashing.* `Index` stands for MurmurHash3 modulo `N_entry`: any
  function from keys to entries. A key is in the trace of one client
  (`spread.py` sends the lines of a key to one file; it does so per step, here
  it is the same client for all steps).
- *Failures.* A missing or an existing file is modelled with what follows from
  it. Failures of malloc, of opening configuration files, of locks and of
  sockets are left out.
- *Messages.* REQ/REP and PUSH/PULL deliver; SUB is connected from the start.
- *Signals.* A handler runs as one step, between any two steps of the main
  thread. A `zmsg_recv` of the manager that a signal interrupts would return NULL
  and be counted as a message (`manager_dh.c:455`); `ManagerUndisturbed` shows
  that the launcher signals it only when it gathers nothing, so this is left out.

### The other modules

`BalanceDH` and `BalanceWindowed` follow one number from the counter to the
table: `access_count` and `sai` of each server, the message, `global_list`, and
one action per iteration of a loop of `manager_calculate_relab`. `Give` and
`Fill` are translated with what they really do: DH looks entries and servers up
by the *value* of their load, windowed keeps the entries of the previous giver
in `subset_srv` (`size_srv` is never reset), and both may name an entry twice.
Clients are stopped meanwhile, as under `launch_all.sh`, so the transfer and the
reset of the counters at both servers are one step, `Transfer`. SAI values are
whole numbers: `ALPHA` is one half and the code truncates the sum. `since` in
`BalanceWindowed` is a history variable. One access action is `Burst` accesses
of an entry in a row, so that few steps bring loads that entries move for, and
that are not halved to nothing in the next step.

`IndepEpoch` has the handler of SIGUSR2 in its steps (`Measure`,
`PublishEpoch`, `NoNeed` / `AskForHelp`), the listener (`ReceiveAsk`, `Answer`,
`ReceiveMlt`, `Transferred`), the manager's loop, its handler between any two of
its steps, and `synchro.bash`. The load of a server is left out: whether it is
within the thresholds is a free choice of each server of `Askers` in each epoch,
and a SAI list is the epoch it was measured in. The transfer is one step here.
Signals are delivered before the next step of the traces starts. With `Settles` the launcher removes the ack files only when no handler
runs and the manager has read what was sent to it: a step of the traces takes
minutes, a handler milliseconds, and what happens without this is a run of its
own.

`IndepTransfer` adds what that step does. The MLT message carries any table that
`RelabMany` allows (`SendMlt`), the listener compares it with its own line by
line (`Compare`), then a sender and a receiver run until the listener joins them
(`Join`). A server may give to several servers and get from several; a sender
takes its entries by destination (`load_args_sort`), a receiver whatever arrives.
One step of a thread is what it does with one entry between two messages, and the
names of an entry travel together: the clients are stopped, which
`QuietWhileClientsRun` shows, so nobody else touches the lists, the files and the
lines meanwhile. The single steps are in `DHTransfer`. The counters, which the
threads carry or reset, are in `BalanceWindowed`. The actions of `IndepEpoch` are
conjuncts of those of `IndepTransfer`, so every behaviour of the composition is
one of `IndepEpoch` as far as its variables go, and what is proved there holds
here.

`WindowQueue` has the fields of the struct of `queue.h`, one action per
operation that changes them, and `MeanOfElements` for `queue_mean`.

### The launcher

`Barrier = TRUE` is `launch_all.sh`: it waits for all clients of a step, then
signals, then waits for the acks. `Barrier = FALSE` lets clients run during a
redistribution. The transfer state, `wait&retry`, and the version check have no
other purpose, since under the barrier no client runs while a line is in
transfer; a client of the next step starts again from the initial table and
has to learn every move, which keeps `update&retry` at work under the barrier.

## What the runs check

The runs whose name starts with `DH` use `MCDHProtocol`. Bounds: `NbSrv`,
`NEntry`, the keys and clients are the sets of the configuration; `MaxReq`
bounds the requests of a client over the whole run; `MaxRounds` bounds the
signals of the launcher.

| run | instance | what it shows |
|---|---|---|
| `DHLockstep` | barrier, 2 servers, 2 entries, 2 keys, 2 clients of 2 requests, 2 rounds of either signal | `MetadataInv` (the invariant of the proofs); `AnswerIsNewer`: under the barrier an `update&retry` carries a newer line; `NoThreadFails`; `Conserved`: at each moment a key is at exactly one of file, sender, packet, receiver; `Placed`: between redistributions each server holds file and list element of exactly its keys; `SettledWhenAcked`: with all acks in, every table is the published one and nothing is in flight |
| `DHConcurrent` | no barrier, 2 servers, 2 entries, 2 keys, all request types, 2 rounds | `IndInv` and `HandoverInv` (the invariants of the proofs), `VersionAgreement`, `SingleServing`, `AcceptedByOwner`, `ServerVersionsGrow`; `HandsOver`: it implements `EntryOwnership`; `ManagerUndisturbed`: the launcher never signals a manager that gathers |
| `DHLiveness` | no barrier, creates and updates, 1 round, fair | `RoundCompletes`, `RequestsEnd` |
| `RelabDH` | `BalanceDH`, 3 servers, 4 entries, 8 bursts of 2, 2 redistributions | `ImplementsRelab`; `OwnerHasLastWord`: the merged load of a used entry is its server's; `NoOvershoot`: no giver below the mean, no taker further from it; `IdleEntriesStay` |
| `RelabWindowed` | `BalanceWindowed`, 3 servers, 4 entries, 6 bursts of 2, window of 2, 3 steps | `ImplementsRelab`; `WindowIsOwners`, `LoadIsOwners`: windows and loads follow the entries; `NoTakerOvershoots`, `OnlyGiverKeepsItsShare`, `IdleEntriesStay` |
| `WindowQueue` | ring of 4, values 0, 1, 5, no other bound | `KeepsLastValues`: the ring implements the last values; `MeanOfElements` |
| `EpochSettled` | `IndepEpoch`, 3 servers that may all ask, 2 steps with either signal, `Settles`, fair | `EpochInv` (the invariant of the proofs, with the types), `EaclsOfThisEpoch`, `QuietWhileClientsRun`, `NoAskIgnored`, `OneAskPerEpoch`, `RoundCompletes` |
| `WindowedTransfer` | `IndepTransfer`, 3 servers of which one may ask, 2 entries, 2 steps with either signal, `Settles` | `TransferInv` (the invariant of the proofs, with the types); `EntriesInPlace`: when clients run, every server has the last table, nothing in transfer, and the names of exactly its entries; `HandsOver`: it implements `EntryOwnership`; nobody waits for ever (deadlock) |

Two servers exercise both directions of a transfer at once; an entry can move
and move back. A third server, which sees two moves it has no part in or is the
target of the second, is in `WindowedTransfer`, and the proofs of `SingleServing`
and `SettledWhenAcked` are for any number of them. Two keys of one entry make the
lists longer than one element and let a name be created while another is being
transferred. Two rounds let a second table overtake a slow updater. Three
servers and four entries give two givers and one taker, or one giver and two
takers, and a server with two entries; the second redistribution starts from a
table with moved entries, and the windowed run's third step has windows that are
full. Two steps of `IndepEpoch` let everything of the first epoch be late for
the second. In `WindowedTransfer` three servers and two entries let a server
give to two others, get from two others, and get back what it gave; who asks
makes no difference to a transfer, so one asking server is enough.

Deadlock is checked wherever the system must not stop: `DHLiveness`,
`WindowQueue`, `EpochSettled` and `WindowedTransfer` (whose `Stopped` is the end
of the experiment). `DHLockstep` and `DHConcurrent` have two rounds, in which the
lost signal described below does stop the system, and in `DHConcurrent` a server
may end on the `get` of a missing file. `RelabDH` and `RelabWindowed` stop after
`MaxRounds`.

### Disagreements with comments of the code

| run | property | what happens |
|---|---|---|
| `DHStranded` | `Placed` | a create accepted before the updater marks the line writes its file after the sender drained the list: the key stays behind |
| `DHDropped` | `WaitIsRetried` | `client.c` repeats only a create after `wait&retry` |
| `DHLostSignal` | `RoundCompletes` | `update_needed = 0` at the end of a round erases a signal that came in between; the launcher waits for ever |
| `EpochStaleAck` | `AckIsOfThisStep` | a handler may write its `USR-0` after its listener has transferred and the launcher has removed the acks: the file counts for the next step |

The first two need clients that run during a redistribution. `DHLostSignal`
needs nothing but a manager that is slow between two lines, `EpochStaleAck` a
handler that is slow between two lines.

Other things met while modelling, all of them in the models as the code has
them, without a run of their own:

- `client_request_read` hides `-EAGAIN` behind `-1`, so a get is not repeated
  after `update&retry` (`client_api.c:271`).
- Without the barrier, a server behind the client sends it back to the older
  line (`distribution_dh_s.c:237`); under it, `AnswerIsNewer` holds.
- A transferred key has the content "a word" (`distribution_dh_s.c:670`).
- `manager_dh.c` gives all entries of a server with a SAI value that was picked
  (line 357) and finds a server by its load (line 290), so equal values are
  given together; `NoOvershoot` has the condition `Distinct` for this reason.
- An entry nobody used keeps its older SAI in the manager's list
  (`manager_dh.c:123`); `OwnerHasLastWord` speaks of used entries only.
- `manager_windowed.c`: `size_srv` is not reset between two givers (line 333),
  an entry can be given twice (356), and a removed server is replaced by one the
  loop then skips (365). The takers are safe from it (`NoTakerOvershoots`); with
  several givers one of them may end below the mean, so the other half is
  stated for a lone giver.
- `manager_v2_indedh.c`: if a step does not settle, a late HELP of the previous
  epoch may pass the comparison before the handler runs and start a
  redistribution of its own (495, 504), and `epoch_processed = 1` after the
  table is sent overwrites the handler's reset (606), so that the next HELP is
  ignored. `Settles` excludes both.

### Fairness

`Fairness` is weak fairness of each thread: the manager, each server's main
thread, updater, sender and receiver, each client, the launcher, and the
delivery of a pending signal. These are operating system processes and threads
that are never suspended for ever. Nothing is assumed about the choices: which
client a server receives from, which packet a receiver takes, what the manager
moves. `RequestsEnd` therefore relies on the transfer itself to end the
repetition of creates.

In `IndepEpoch` each handler has its own weak fairness: it interrupts the thread
it runs in, so it goes on whatever that thread waits for. The listener, the
manager's loop and the launcher have one each. Nothing is assumed about whether
a server asks for help, nor about the order in which the manager reads.

## What is proved

Every safety property and every refinement that a passing run checks is also a
theorem. Those on the protocol hold for any number of servers, entries, clients,
keys, requests and rounds and for any `Index`, trace and set of requests, from the
assumptions `SizesAssumption`, `DataAssumption`, `TraceAssumption` and
`LauncherAssumption`; those of `DHProtocolProofs` for both launchers, those of
`DHMetadataProofs` under `Barrier`, which is `launch_all.sh`. Those on `BalanceDH`
and `BalanceWindowed` hold for any number of servers, entries, accesses and
redistributions (`SizesAssumption`, `BalanceAssumption`, `WindowedAssumption`),
those on `WindowQueue` for any size and values (`QueueAssumption`), those on
`IndepEpoch` and `IndepTransfer` for any number of servers, entries and steps
(`SizesAssumption`, `EpochAssumption`), if the system `Settles`. TLC evaluates the
assumptions in the runs. `Barrier` and `Settles` are hypotheses of their theorems:
the runs `DHStranded` and `EpochStaleAck` show what can happen without them.

| theorem | statement |
|---|---|
| `Invariance` | `Spec => []IndInv` |
| `TypeCorrect` | `Spec => []TypeOK` |
| `VersionsAgree` | `Spec => []VersionAgreement` |
| `OwnerAccepts` | `Spec => AcceptedByOwner` |
| `VersionsGrow` | `Spec => ServerVersionsGrow` |
| `HandoverInvariance` | `Spec => []HandoverInv` |
| `OneServer` | `Spec => []SingleServing` |
| `AcksMeanSettled` | `Spec => []SettledWhenAcked` |
| `ManagerIsAsleep` | `Spec => ManagerUndisturbed` |
| `Implements` | `Spec => HandsOver`, the refinement of `EntryOwnership` |
| `MetadataInvariance` | `Barrier` implies `Spec => []MetadataInv` |
| `NothingLost` | the same for `[]Conserved` |
| `FilesFollowTable` | the same for `[]Placed` |
| `ThreadsSucceed` | the same for `[]NoThreadFails` |
| `RedirectsForward` | the same for `[]AnswerIsNewer` |
| `GreedyBound` | `Loads`: what `manager_balance_load` picks, for every list and weights |
| `BalanceInvariance`, `BalanceTypes` | `BalanceDH`: `Spec => []BalanceInv`, `Spec => []TypeOK` |
| `BalanceImplementsRelab` | `BalanceDH`: `Spec => ImplementsRelab` |
| `OwnerReported` | `BalanceDH`: `Spec => []OwnerHasLastWord` |
| `LoadsComeCloser` | `BalanceDH`: `Spec => []NoOvershoot` |
| `UnusedStay` | `BalanceDH`: `Spec => []IdleEntriesStay` |
| `WindowedInvariance`, `WindowedTypes` | `BalanceWindowed`: `[](RelabInv /\ MeasureInv)`, `[]TypeOK` |
| `WindowedImplementsRelab` | `BalanceWindowed`: `Spec => ImplementsRelab` |
| `TakersStayBelowMean` | `BalanceWindowed`: `Spec => []NoTakerOvershoots` |
| `OnlyGiverStaysAboveMean` | `BalanceWindowed`: `Spec => []OnlyGiverKeepsItsShare` |
| `WindowsFollowEntries` | `BalanceWindowed`: `Spec => []WindowIsOwners` |
| `LevelsAreOwnLoads` | `BalanceWindowed`: `Spec => []LoadIsOwners` |
| `IdleStay` | `BalanceWindowed`: `Spec => []IdleEntriesStay` |
| `RingTypes` | `WindowQueue`: `Spec => []TypeOK` |
| `RingImplementsWindow` | `WindowQueue`: `Spec => KeepsLastValues` |
| `MeanOfTheElements` | `WindowQueue`: `Spec => []MeanOfElements` |
| `EpochInvariance` | `IndepEpoch`: `Settles` implies `Spec => []EpochInv` |
| `EaclsAreOfThisEpoch` | the same for `[]EaclsOfThisEpoch` |
| `ClientsRunInQuiet` | the same for `[]QuietWhileClientsRun` |
| `AskedOnce` | the same for `OneAskPerEpoch` |
| `AsksAreAnswered` | the same for `NoAskIgnored` |
| `TransferInvariance` | `IndepTransfer`: `Settles` implies `TxSpec => []TransferInv` |
| `PlacedWhileClientsRun` | the same for `[]EntriesInPlace` |
| `Implements` (`IndepProofs`) | the same for `HandsOver`, the refinement of `EntryOwnership` |

In the protocol, `TypeOK` alone is not inductive: a server that answers needs a request to be
there, a sender that deletes a file needs a name, a receiver that answers needs
the packet it took. `IndInv` adds

- `ExchangesOK`, `MainOK`, `ThreadsOK`: each thread, where it stands, has the
  message it is about to read, and nobody else answers it;
- `HistoryOK`: the published tables follow each other entry by entry (a later
  version is later, the same version is the same assignment), and the manager's
  own table follows the last one;
- `TablesOK`: line `e` of a server's table is the line of the published table
  the updater has brought it to, `At(s, e)`. An updater that has not compared
  the entry yet is one table behind;
- `ClientsOK`: every line of a client's table, every stamp of a request and
  every line of an answer was published.

Agreement on versions follows: everything anyone knows about an entry was
published (`KnownPublished`), and two published assignments with the same
version are the same (`PublishedAgree`). The owner accepts because the stamp of
a request addressed to `s` was published with `s` as its server, and the line of
`s` with the same version is the same assignment. Versions grow because the
updater moves along a log whose entries follow each other.

`IndInv` says what every thread knows; `HandoverInv` says where a redistribution
is. Its conjuncts are

- `LockstepOK`: one redistribution at a time. The launcher signals only after all
  acks of the previous one, the manager publishes only after the signal, so no
  updater is more than one table behind, and nobody is when the manager works;
- `MovesOK`: an entry with a new version has a new server;
- `SendersOK`, `ReceiversOK`: what is on a to-do list, in a packet, or in a
  receiver's hands is an entry that moves between these two servers;
- `LinesOK`: a line is in transfer only at the old and the new server of an entry
  that moves, and the new server's line is in service only after the old one has
  compared its own;
- `CountsOK`: `to_receive` of a server, a number that the C code counts up in one
  thread and down in another, is the number of entries whose packet it still has
  to answer (`Awaited`).

Deletions and additions of one element to `Awaited` carry `CountsOK` through the
comparison and the answers. It gives `AcksMeanSettled`: a receiver that has counted
to zero has answered every packet meant for its server, so when all have joined,
nothing is in flight. A receiver that has failed also ends its thread; then its
packet is unanswered, and the sender of it does not end, so its server does not
acknowledge. `OneServer` follows from `LinesOK` and the lines of `IndInv`. No
conjunct needs the barrier: clients may do what they like, they change no line.

For the refinement, the holder of an entry is the server whose own line names
itself and is not in transfer. `MgrSend` is `Redistribute`, whose guard (every
entry has arrived) is `LockstepOK` with `LinesOK`; an iteration of the updater at
the old server is `Release`, the receiver's change of the line `Take`; every other
step leaves the holders alone.

Under the barrier `MetadataInv` says where every key is. Its two halves meet only
when the launcher changes phase. While clients run (`RequestsOK`, `TracesOK`,
`RestingOK`) nothing is in transfer, a request is taken by the server the last
table names, and file and list element of its key are where the traces and the
step of the request say; the key is in the trace of one client, so no other
request is about it. While entries move (`NamesOK`, `DrainOK`, `ArriveOK`,
`MovingOK`) no client runs, and a key is with the keeper of its entry, as a file
that is listed or just popped, or as a name that is packed, sent or arrived; the
keeper changes when the receiver takes the packet (`Handed`). No thread fails,
because a name that is popped has its file and a name that arrives has none.
`Conserved` needs that the four kinds of places exclude each other, `Placed` that
nothing is on its way when the acks are in, which is `HandoverInv`. `MainOnly` shows
that a step of a main thread touches the one request it serves.

In `BalanceDH` the refinement rests on `TablesInv`: until it is published the
manager's table differs from the old one only where an overloaded server gave an
entry to its target (`GivenTo`), and no target is overloaded. Hence no server
both gives and gets, a giver has one target, and the versions are the next ones,
which is `Relab`. Nothing is used about what the greedy choice picks.

That no server ends further from the mean does need it. `GreedyBound` is the
bound on one choice: the sum of what `manager_balance_load` picks reaches the goal
at most, or, with the one element it takes on top, leaves a load nearer to zero.
DH picks values, and gives by value: `PickedBound` carries the bound over to any
set whose members have different values among those picked, by renaming the sum.
`LoadsInv` uses it for the servers assigned to an underloaded one, which
`find_index` tells apart by their loads, whether equal loads exist or not;
`SharesInv` for the entries one server gives, which is where `Distinct` is needed.
A server is then between its old load and what the others have still to give it
(`Share`): a step of `Give` moves the same weight out of the sum of promises and
into the load, so the bound made when the targets were chosen lasts until the
table is published.
`OwnerReported` needs `MergeInv`: only the server in charge has counted an entry
(the old and the new server both reset it), each server is in exactly one of
"has not sent", "message on its way", "merged", and merging a zero changes
nothing; so when `NbSrv` messages are merged, each owner's value is in the list,
whatever was merged after it.

In `BalanceWindowed` `RelabInv` describes the loops with what the code forgets to
reset. `subset_srv` of one giver still has entries of the givers before, so
`SubsetsInv` says only that they are entries of overloaded servers already looked
at, and `TargetsInv` that a given entry is in nobody's charge but an overloaded
server's and goes to an underloaded one; this is enough for `ImplementsRelab`,
since an entry that is given twice has the last target and one new version.
`LoadsInv` has the inequality behind `TakersStayBelowMean`: what the loops *count*
as given to a server is at least what it really gets, because an entry counted
twice moves once. For a giver the same inequality points the wrong way unless it
is the only one (`Givers = {s}`). `MeasureInv` says that a server has counted
nothing, and has only zeros in its windows, for entries of others, and that the
window of its own has one value per step since the entry came (`Span`).

In `WindowQueue`, `RingInv` adds to the types that the index is the count until
the ring is full. `PutImplements` shows, for a ring that is filling, has become
full, or wraps, that the elements after a put are those before it with the new
one appended and the oldest dropped. `MeanOfTheElements` compares two sums: over
the slots below `used`, as `queue_mean` takes it, and over the sequence of the
elements, which are the same numbers in another order (`SumRenamed`).

In `IndepEpoch`, `EpochInv` ties everything to `Target`, the epoch of the
launcher's last signal: the servers, and the manager after them, count signals on
their own, and a HELP carries the count of its sender. Its core is
`ListenersOK` and `GatherOK`: a listener is idle, or has the ASK of this epoch, or
its table, in this order and once; a server whose EACL was counted has nothing
left in its queue, so the number of messages counted is the number of servers
counted (`Cardinality(Counted) = Len(gathered)`) and the round is complete exactly
when all have answered. `AcksOK` closes the circle: an ack `-1` is written only
for a published table, an ack `-0` only by a handler that wants none, so either
kind, from all servers, means that the step is over. `Settles` is used once, when
the launcher removes the ack files: a handler that has not ended, or a HELP that
is on its way, would belong to the wrong epoch afterwards.

`TransferInv` adds the transfers. A server is at the last table or one behind it,
line by line (`At`), because the manager publishes only when `EpochInv` has every
listener idle; a list of a sender has what its server lost, a packet is of that
list, `in_charge` is exactly what the server is the keeper of, and `to_receive`
is the number of entries that have yet to come. A packet may be
sent to a server whose own comparison has not come to its entry; it waits there,
because a receiver runs after the comparison, so an entry that was delivered is
compared at both servers.

The invariants are inductive step by step: one lemma per action or process, and
under it one step per conjunct the action can disturb. `DHProtocolProofs` begins
with the lemmas on tables and lists (`Mlt`), then has the types, `IndInv`,
`HandoverInv` and the refinement, in this order.

The sums are `SumFunctionOnSet` of the community modules, a choice of a function on
sets that solves a recursion. `SumProofs` shows that a solution exists and is
unique, and with it what adding, removing, joining and renaming elements does to a
sum. Induction is done with sets of naturals and of finite sets and their least
elements instead of operators, so that no theorem has an operator as a parameter;
in the same way `FoldExists` has the function behind a loop over a list, which
`manager_balance_load` and `RemoveEach` are.

## Only model-checked

The liveness properties `RoundCompletes` (of the DH build and of `IndepEpoch`) and
`RequestsEnd`: temporal reasoning under fairness, with `ENABLED`, is out of the
prover's reach. The four runs that expect a violation show behaviours, and have
nothing to prove. The inductive invariants of the two computations (`BalanceInv`,
`RelabInv`, `MeasureInv`) are in their proof modules; their runs check the
properties they are for.

## Not modelled

SIGINT and the orderly end of processes; interrupted receives other than the
manager's, which `ManagerUndisturbed` excludes; the additions of
a counter as steps of several threads, and SAI values that are not whole; result
files and timing; the failures listed under *Abstractions*; two threads that
send on one ZeroMQ socket (`distribution_indedh_s.c:791`); a handler of windowed that is overtaken by the
transfer between two counters (`distribution_windowed_s.c:964`); the content of JSON
messages; offline generation of traces and jobs; MurmurHash3. Static hashing
keeps no state beyond the files. `manager_indedh.c` is not built.

## Plan

Written, in this order: the table and the protocol (`Mlt` to `DHProtocol`) with
its invariant proved; the computation in DH and that it implements what the
protocol assumes of it (`BalanceDH`, `Rebalancing`); the window (`WindowQueue`);
the computation in windowed and indedh (`BalanceWindowed`); the exchange of
messages of those two builds (`IndepEpoch`); what a redistribution promises for an
entry (`EntryOwnership`) and the proof that the DH build keeps it (`DHHandover`,
`DHOwnership`); the transfers of windowed and indedh (`IndepTransfer`); the proofs
about `IndepEpoch`; the metadata under the barrier (`DHMetadata`) with its proofs;
the proofs about `IndepTransfer` and about both computations, with the sums and
lists they need. Left:

1. `MetadataStore`: an abstract store of keys with atomic requests, which the DH
   build implements under the barrier, shown from `MetadataInv`.
2. The stop of a server (SIGINT), with the order in which
   `distribution_finalize` ends threads and destroys what they use.
