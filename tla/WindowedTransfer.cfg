\* Three servers, two entries, two steps with either signal; the load of one
\* server may be outside the thresholds.
CONSTANTS
  NbSrv = 3
  NEntry = 2
  Signals = {"USR1", "USR2"}
  Askers = {0}
  MaxRounds = 2
  Settles = TRUE
  None = None
SPECIFICATION TxSpec
INVARIANTS
  TransferInv
  EntriesInPlace
PROPERTIES
  HandsOver
