\* Two steps with either signal, all settling between them.
CONSTANTS
  NbSrv = 3
  NEntry = 1
  Signals = {"USR1", "USR2"}
  Askers = {0, 1, 2}
  MaxRounds = 2
  Settles = TRUE
SPECIFICATION FairSpec
INVARIANTS
  EpochInv
  EaclsOfThisEpoch
  QuietWhileClientsRun
PROPERTIES
  NoAskIgnored
  OneAskPerEpoch
  RoundCompletes
