\* A key created while its entry leaves the server.
CONSTANTS
  NbSrv = 2
  NEntry = 2
  k1 = k1
  k2 = k2
  c1 = c1
  c2 = c2
  v1 = v1
  v2 = v2
  Clients = {c1}
  Keys = {k1, k2}
  Index <- IndexSame
  TraceOf <- TraceOne
  Values = {v1}
  DefaultValue = v1
  None = None
  Ops = {"create"}
  MaxReq = 1
  Barrier = FALSE
  Signals = {"USR2"}
  MaxRounds = 1
SPECIFICATION Spec
INVARIANTS
  Placed
