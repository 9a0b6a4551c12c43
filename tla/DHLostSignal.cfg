\* Two redistributions of empty steps.
CONSTANTS
  NbSrv = 2
  NEntry = 2
  k1 = k1
  k2 = k2
  c1 = c1
  c2 = c2
  v1 = v1
  v2 = v2
  Clients = {c1}
  Keys = {k1, k2}
  Index <- IndexSame
  TraceOf <- TraceOne
  Values = {v1}
  DefaultValue = v1
  None = None
  Ops = {"create"}
  MaxReq = 0
  Barrier = TRUE
  Signals = {"USR2"}
  MaxRounds = 2
SPECIFICATION FairSpec
CHECK_DEADLOCK FALSE
PROPERTIES
  RoundCompletes
