\* Two steps that may overlap. A lost HELP leaves everyone waiting.
CONSTANTS
  NbSrv = 2
  NEntry = 1
  Signals = {"USR2"}
  Askers = {0, 1}
  MaxRounds = 2
  Settles = FALSE
SPECIFICATION Spec
CHECK_DEADLOCK FALSE
INVARIANTS
  AckIsOfThisStep
