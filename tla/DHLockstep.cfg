\* launch_all.sh as it is: two steps of the traces, each followed by a measure
\* or a redistribution.  The system may stop: a SIGUSR2 that reaches the manager
\* before it clears update_needed is lost (see DHLostSignal.cfg).
CONSTANTS
  NbSrv = 2
  NEntry = 2
  k1 = k1
  k2 = k2
  c1 = c1
  c2 = c2
  v1 = v1
  v2 = v2
  Clients = {c1, c2}
  Keys = {k1, k2}
  Index <- IndexSame
  TraceOf <- TraceTwo
  Values = {v1}
  DefaultValue = v1
  None = None
  Ops = {"create", "get", "update", "delete"}
  MaxReq = 2
  Barrier = TRUE
  Signals = {"USR1", "USR2"}
  MaxRounds = 2
SPECIFICATION Spec
CHECK_DEADLOCK FALSE
INVARIANTS
  MetadataInv
  AnswerIsNewer
  NoThreadFails
  Placed
  Conserved
  SettledWhenAcked
