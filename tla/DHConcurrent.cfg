\* Clients run during two redistributions.  The system may stop: a server may end
\* (a get of a missing file) and a transfer thread may fail.
CONSTANTS
  NbSrv = 2
  NEntry = 2
  k1 = k1
  k2 = k2
  c1 = c1
  c2 = c2
  v1 = v1
  v2 = v2
  Clients = {c1}
  Keys = {k1, k2}
  Index <- IndexSame
  TraceOf <- TraceOne
  Values = {v1}
  DefaultValue = v1
  None = None
  Ops = {"create", "get", "update", "delete"}
  MaxReq = 2
  Barrier = FALSE
  Signals = {"USR2"}
  MaxRounds = 2
SPECIFICATION Spec
CHECK_DEADLOCK FALSE
INVARIANTS
  IndInv
  HandoverInv
  VersionAgreement
  SingleServing
PROPERTIES
  AcceptedByOwner
  ServerVersionsGrow
  HandsOver
  ManagerUndisturbed
